---- MODULE Spec2Model ----
(***************************************************************************)
(* Stock_Alert_System: the alerting engine of the dashboard variants.      *)
(*                                                                         *)
(*   appv2.py / appv1bk.py  symmetric crossing policy                      *)
(*   app.py                 symmetric crossing policy with trigger times,  *)
(*                          status and the 3% proximity policy             *)
(*   app6.py / shedular.py  one-shot cooldown policy (V20)                 *)
(*                                                                         *)
(* The store is the sqlite table `stocks`.  A tick of check_prices loads   *)
(* the enabled rows once (SELECT ... WHERE enabled = 1) and then walks the *)
(* loaded rows; every condition of the walk reads the loaded row, every    *)
(* UPDATE writes named columns of the stored row with that id.  The        *)
(* dashboard handlers run in other threads and interleave with the walk    *)
(* between two rows.  The writes of one row commute with the dashboard's   *)
(* writes (disjoint columns) and a DELETE absorbs them, so evaluating one  *)
(* loaded row is one step.                                                 *)
(*                                                                         *)
(* Prices of the symmetric variants are whole rupees; prices of the        *)
(* cooldown variants are paise (0.01 rupee), so that the absolute          *)
(* tolerance 0.01 of the code is one unit.                                 *)
(***************************************************************************)
EXTENDS Integers, Sequences, FiniteSets, TLC

VARIABLES
    cfg,        \* the run: which program (variant), how many rows, sessions, tags,
                \* which quotes
    stocks,     \* table stocks: id -> row (DOMAIN = the stored ids)
    nextId,     \* ids handed out so far + 1 (uuid4 values are never reused)
    now,        \* the clock (see Clock below)
    started,    \* scheduler threads that were started
    pc,         \* per scheduler thread: "idle", "ticking", "stalled" (in a call that
                \* does not return) or "dead" (run_scheduler has ended)
    df,         \* per scheduler thread: the rows loaded by the running tick
    queue,      \* per scheduler thread: ids of df still to be walked
    tickTime,   \* per scheduler thread: current_time of the running tick
    last,       \* observation: the walk step just taken (id 0: none)
    trail,      \* observation: per id, the first evaluations since insertion
                \* (symmetric programs)
    sent,       \* observation: per id, the V20 messages sent for it so far
    sentAt,     \* observation: per id and V20 message, when it was last sent
    evaluated,  \* observation: the ids a tick of the cooldown programs evaluated
    manual,     \* observation: per id, the messages of the manual notification
                \* just sent
    detect,     \* observation: the latest price history and its V20 range
    adding,     \* per dashboard session: the add_stock_form submission that has
                \* passed its SELECT and not yet run its INSERT
    alive       \* the process is running

vars == <<cfg, stocks, nextId, now, started, pc, df, queue, tickTime, last, trail,
          sent, sentAt, evaluated, manual, detect, adding, alive>>

----------------------------------------------------------------------------
(* Bounds of the model *)

\* evaluations of one row that trail remembers
HistLen == 3

\* the clock of the cooldown variants moves in steps of ClockStep seconds,
\* MaxAdvances times at most
ClockStep == 30
MaxAdvances == 4

(* Values *)

\* Python None in a numeric column (prices and times are >= 0)
None == -1

\* scheduler threads (one per dashboard session) and row ids (uuid4 values)
Threads == {1, 2}
StockIds == {1, 2}

SymVariants == {"appv2", "app"}
CdVariants == {"app6"}

\* shedular.py: the scheduler without a dashboard
SchedVariants == {"shedular"}

\* the programs whose check_prices is the one-shot cooldown policy
V20Programs == CdVariants \cup SchedVariants

\* what the user types into the symbol box, and symbol.upper()
SymbolInputs == {"srf"}
Upper(s) == IF s = "srf" THEN "SRF" ELSE s

\* st.number_input values entered in the add and edit forms
AlertChoices == {0, 100}
TargetChoices == {0, 120}

\* quotes of the market-data source, whole rupees
Quotes == {85, 90, 95, 97, 98, 99, 100, 105, 120, 125}

EventKinds == {"Alert", "Target", "PreAlert", "PreTarget", "BuyAlert", "SellAlert"}

Has(events, kind) == \E i \in 1..Len(events) : events[i] = kind

----------------------------------------------------------------------------
(* Rows *)

\* appv2.py add_stock_form: INSERT ... VALUES (uuid, SYMBOL, alert, target, strategy, 1, 0, 0)
NewRowV2(symbol, alert, target, strategy) ==
    [symbol |-> Upper(symbol), alert_price |-> alert, target_price |-> target,
     strategy |-> strategy, enabled |-> 1,
     last_notified_alert |-> 0, last_notified_target |-> 0]

\* app.py add_stock_form: ... (uuid, SYMBOL, alert, target, strategy, 1, 0, 0, 0, 0, None, None, 'Open', added_time)
NewRowApp(symbol, alert, target, strategy, added) ==
    [symbol |-> Upper(symbol), alert_price |-> alert, target_price |-> target,
     strategy |-> strategy, enabled |-> 1,
     last_notified_alert |-> 0, last_notified_target |-> 0,
     last_notified_pre_alert |-> 0, last_notified_pre_target |-> 0,
     alert_trigger_time |-> None, target_trigger_time |-> None,
     status |-> "Open", added_time |-> added]

----------------------------------------------------------------------------
(* The symmetric crossing rule and the proximity band *)

\* faulty variant: the comparison with the last notified price is not strict
CrossedFurtherNonStrict(current, threshold, lastNotified) ==
    \/ (current <= threshold /\ current <= lastNotified)
    \/ (current >= threshold /\ current >= lastNotified)

\* faulty variant: the rule re-arms on the far side only (no notification on a change of side)
CrossedFurtherSameSide(current, threshold, lastNotified) ==
    \/ (current <= threshold /\ current < lastNotified /\ lastNotified <= threshold)
    \/ (current >= threshold /\ current > lastNotified /\ lastNotified >= threshold)
    \/ (lastNotified = 0 /\ current >= threshold)

\* (current <= threshold and current < last) or (current >= threshold and current > last)
CrossedFurther(current, threshold, lastNotified) ==
    \/ (current <= threshold /\ current < lastNotified)
    \/ (current >= threshold /\ current > lastNotified)

\* faulty variant: a price at or under the alert price alerts whatever the marker
AlertFiresV2FromAbove(row, current) ==
    /\ row.alert_price > 0
    /\ \/ current <= row.alert_price
       \/ (current >= row.alert_price /\ current > row.last_notified_alert)

\* appv2.py / appv1bk.py: the alert condition
AlertFiresV2(row, current) ==
    /\ row.alert_price > 0
    /\ CrossedFurther(current, row.alert_price, row.last_notified_alert)

\* faulty variant: the one-shot guard on alert_trigger_time is missing
AlertFiresAppRearm(row, current) ==
    /\ row.alert_price > 0
    /\ CrossedFurther(current, row.alert_price, row.last_notified_alert)

\* app.py: the alert condition, with the one-shot guard on alert_trigger_time
AlertFiresApp(row, current) ==
    /\ row.alert_price > 0
    /\ row.alert_trigger_time = None
    /\ CrossedFurther(current, row.alert_price, row.last_notified_alert)

\* all symmetric variants: the target condition (status is not read)
TargetFires(row, current) ==
    /\ row.target_price > 0
    /\ CrossedFurther(current, row.target_price, row.last_notified_target)

\* faulty variant: the band is open at its ends
InBandOpen(current, threshold) ==
    /\ 100 * threshold - 3 * threshold < 100 * current
    /\ 100 * current < 100 * threshold + 3 * threshold

\* threshold - threshold * 0.03 <= current <= threshold + threshold * 0.03
InBand(current, threshold) ==
    /\ 100 * threshold - 3 * threshold <= 100 * current
    /\ 100 * current <= 100 * threshold + 3 * threshold

\* faulty variant: a pre-alert is sent once per band, not once per price
PreAlertFiresOncePerBand(row, current) ==
    /\ row.alert_price > 0
    /\ InBand(current, row.alert_price)
    /\ row.last_notified_pre_alert = 0

PreAlertFires(row, current) ==
    /\ row.alert_price > 0
    /\ InBand(current, row.alert_price)
    /\ current # row.last_notified_pre_alert

PreTargetFires(row, current) ==
    /\ row.target_price > 0
    /\ InBand(current, row.target_price)
    /\ current # row.last_notified_pre_target

\* the messages of one walk step, in the order they are sent
EventsV2(row, current) ==
    (IF AlertFiresV2(row, current) THEN <<"Alert">> ELSE <<>>)
    \o (IF TargetFires(row, current) THEN <<"Target">> ELSE <<>>)

EventsApp(row, current) ==
    (IF AlertFiresApp(row, current) THEN <<"Alert">> ELSE <<>>)
    \o (IF TargetFires(row, current) THEN <<"Target">> ELSE <<>>)
    \o (IF PreAlertFires(row, current) THEN <<"PreAlert">> ELSE <<>>)
    \o (IF PreTargetFires(row, current) THEN <<"PreTarget">> ELSE <<>>)

\* the UPDATEs of one walk step applied to the stored row `stored`; the
\* conditions read the loaded row `row`
UpdateAlertV2(stored, row, current) ==
    IF AlertFiresV2(row, current)
    THEN [stored EXCEPT !.last_notified_alert = current]
    ELSE stored

UpdateTargetV2(stored, row, current) ==
    IF TargetFires(row, current)
    THEN [stored EXCEPT !.last_notified_target = current]
    ELSE stored

WritesV2(stored, row, current) ==
    UpdateTargetV2(UpdateAlertV2(stored, row, current), row, current)

\* faulty variant: the loaded row is written back whole
UpdateAlertAppWholeRow(stored, row, current, time) ==
    IF AlertFiresApp(row, current)
    THEN [row EXCEPT !.last_notified_alert = current, !.alert_trigger_time = time]
    ELSE stored

UpdateAlertApp(stored, row, current, time) ==
    IF AlertFiresApp(row, current)
    THEN [stored EXCEPT !.last_notified_alert = current, !.alert_trigger_time = time]
    ELSE stored

\* faulty variant: the target UPDATE leaves status alone
UpdateTargetAppNoStatus(stored, row, current, time) ==
    IF TargetFires(row, current)
    THEN [stored EXCEPT !.last_notified_target = current, !.target_trigger_time = time]
    ELSE stored

UpdateTargetApp(stored, row, current, time) ==
    IF TargetFires(row, current)
    THEN [stored EXCEPT !.last_notified_target = current,
                        !.target_trigger_time = time, !.status = "Closed"]
    ELSE stored

\* faulty variant: the pre-alert marker is never moved
UpdatePreAlertKeep(stored, row, current) == stored

UpdatePreAlert(stored, row, current) ==
    IF PreAlertFires(row, current)
    THEN [stored EXCEPT !.last_notified_pre_alert = current]
    ELSE stored

UpdatePreTarget(stored, row, current) ==
    IF PreTargetFires(row, current)
    THEN [stored EXCEPT !.last_notified_pre_target = current]
    ELSE stored

WritesApp(stored, row, current, time) ==
    UpdatePreTarget(
        UpdatePreAlert(
            UpdateTargetApp(UpdateAlertApp(stored, row, current, time), row, current, time),
            row, current),
        row, current)

----------------------------------------------------------------------------
(* One-shot cooldown policy (app6.py, shedular.py): prices in paise, times  *)
(* in seconds                                                              *)

\* the absolute tolerance 0.01 of the buy and sell comparisons, in paise
Epsilon == 1

\* the creation guard looks at rows younger than 60 seconds
CreationWindow == 60

\* notification_cooldown of a new row (the sidebar's number_input, min 30)
Cooldowns == {30, 90}

\* what get_stock_data returns for the symbol when the row is added:
\* the current price and the V20 range (low, high)
CdInitialPrices == {5050}
CdRanges == {<<5000, 6000>>}

\* the edit form's number_inputs (no min_value)
CdAlertEdits == {0, 5000, 6000}
CdTargetEdits == {0, 6000}

\* quotes of a tick: 2% below the alert price, alert price + 0.01 and + 0.02,
\* target price - 0.02 and - 0.01, above the target price
CdQuotes == {4900, 5001, 5002, 5998, 5999, 6100}

Abs(x) == IF x < 0 THEN 0 - x ELSE x

NewRowV20(symbol, initial, alert, target, strategy, created, cooldown) ==
    [symbol |-> Upper(symbol), initial_price |-> initial, alert_price |-> alert,
     target_price |-> target, strategy |-> strategy, enabled |-> 1,
     created_at |-> created, alert_triggered |-> 0, last_notified_alert |-> 0,
     last_notified_target |-> 0, notification_cooldown |-> cooldown]

\* abs(current_price - alert_price) / alert_price <= 0.01; the division by an
\* alert price of 0 raises, and the row is abandoned as it is when the
\* guard holds
NearAlertPrice(row, current) ==
    IF row.alert_price = 0 THEN TRUE
    ELSE IF row.alert_price < 0 THEN TRUE
    ELSE 100 * Abs(current - row.alert_price) <= row.alert_price

\* faulty variant: no row is left alone
CreationGuardOff(row, current, current_time) == FALSE

\* the rows of a tick that are left alone because they were just added
CreationGuard(row, current, current_time) ==
    /\ current_time - row.created_at < CreationWindow
    /\ row.alert_triggered = 0
    /\ NearAlertPrice(row, current)

LastAlertTime(row) ==
    IF row.last_notified_alert > 0 THEN row.last_notified_alert ELSE row.created_at

LastTargetTime(row) ==
    IF row.last_notified_target > 0 THEN row.last_notified_target ELSE row.created_at

\* faulty variant: the buy signal ignores the cooldown
BuyFiresNoCooldown(row, current, current_time) ==
    /\ row.alert_price > 0
    /\ row.alert_triggered = 0
    /\ current <= row.alert_price + Epsilon

BuyFires(row, current, current_time) ==
    /\ row.alert_price > 0
    /\ row.alert_triggered = 0
    /\ current_time - LastAlertTime(row) >= row.notification_cooldown
    /\ current <= row.alert_price + Epsilon

\* faulty variant: the sell signal does not wait for the buy signal
SellFiresUntriggered(row, current, current_time) ==
    /\ row.target_price > 0
    /\ current_time - LastTargetTime(row) >= row.notification_cooldown
    /\ current >= row.target_price - Epsilon

SellFires(row, current, current_time) ==
    /\ row.target_price > 0
    /\ row.alert_triggered = 1
    /\ current_time - LastTargetTime(row) >= row.notification_cooldown
    /\ current >= row.target_price - Epsilon

\* the messages of one loaded row, buy signal first (manual notification
\* and, past the creation guard, check_prices)
SignalsV20(row, current, current_time) ==
    (IF BuyFires(row, current, current_time) THEN <<"BuyAlert">> ELSE <<>>)
    \o (IF SellFires(row, current, current_time) THEN <<"SellAlert">> ELSE <<>>)

EventsV20(row, current, current_time) ==
    IF CreationGuard(row, current, current_time) THEN <<>>
    ELSE SignalsV20(row, current, current_time)

\* UPDATE stocks SET alert_triggered = 1, last_notified_alert = ? WHERE id = ?
UpdateBuy(stored, row, current, current_time) ==
    IF BuyFires(row, current, current_time)
    THEN [stored EXCEPT !.alert_triggered = 1, !.last_notified_alert = current_time]
    ELSE stored

\* faulty variant: the row is switched off once its sell alert is sent
UpdateSellSwitchesOff(stored, row, current, current_time) ==
    IF SellFires(row, current, current_time)
    THEN [stored EXCEPT !.last_notified_target = current_time, !.enabled = 0]
    ELSE stored

\* UPDATE stocks SET last_notified_target = ? WHERE id = ?
UpdateSell(stored, row, current, current_time) ==
    IF SellFires(row, current, current_time)
    THEN [stored EXCEPT !.last_notified_target = current_time]
    ELSE stored

WritesV20(stored, row, current, current_time) ==
    IF CreationGuard(row, current, current_time) THEN stored
    ELSE UpdateSell(UpdateBuy(stored, row, current, current_time),
                    row, current, current_time)

\* the kinds of a list of messages
Kinds(events) == {events[i] : i \in 1..Len(events)}

----------------------------------------------------------------------------
(* The store and the observation *)

EmptyTable == [i \in {} |-> 0]

Insert(table, id, row) ==
    [i \in (DOMAIN table) \cup {id} |-> IF i = id THEN row ELSE table[i]]

Remove(table, id) == [i \in (DOMAIN table) \ {id} |-> table[i]]

\* SELECT * FROM stocks WHERE enabled = 1
EnabledRows(table) ==
    [i \in {j \in DOMAIN table : table[j].enabled = 1} |-> table[i]]

\* df.iterrows(): the loaded rows in the order of the table
RECURSIVE RowOrder(_)
RowOrder(ids) ==
    IF ids = {} THEN <<>>
    ELSE LET first == CHOOSE i \in ids : \A j \in ids : i <= j
         IN <<first>> \o RowOrder(ids \ {first})

\* no walk step was just taken
NoStep == [thread |-> 0, id |-> 0, quote |-> None, events |-> <<>>, fault |-> "none"]

\* the walk step just taken: the row walked, the quote fetched, the messages sent
Step(t, id, quote, events) ==
    [thread |-> t, id |-> id, quote |-> quote, events |-> events, fault |-> "none"]

\* the walk step just taken, in which a call raised
FaultStep(t, id, quote, events, fault) ==
    [thread |-> t, id |-> id, quote |-> quote, events |-> events, fault |-> fault]

\* no manual notification was just sent
NoManual == [id \in StockIds |-> <<>>]

\* the V20 messages, and the send times of an id after `events` went out at `time`
V20Kinds == {"BuyAlert", "SellAlert"}
NeverSent == [k \in V20Kinds |-> None]
Stamp(at, events, time) ==
    [k \in V20Kinds |-> IF k \in Kinds(events) THEN time ELSE at[k]]

\* no price history was fetched
NoDetect == [hist |-> <<>>, called |-> FALSE, range |-> <<>>]

\* the dashboard sessions
Sessions == {1, 2}

\* no session is inside add_stock_form
NoAdd == [symbol |-> "", strategy |-> ""]
NoAdding == [s \in Sessions |-> NoAdd]

\* trail of a row: recording from the insertion until HistLen evaluations
\* were seen or the dashboard wrote the row
TrailOff == [on |-> FALSE, seq |-> <<>>]
TrailNew == [on |-> TRUE, seq |-> <<>>]

Record(tr, quote, events) ==
    IF ~tr.on THEN tr
    ELSE IF Len(tr.seq) >= HistLen THEN TrailOff
    ELSE [tr EXCEPT !.seq = Append(@, [quote |-> quote, events |-> events])]

----------------------------------------------------------------------------
(* Clock of the symmetric variants.  check_prices of app.py compares the   *)
(* time of a walk step with the added_time of a loaded row and of no other *)
(* time; an insertion is committed before a tick can load its row.  The    *)
(* clock counts insertions: an insertion reads an even time, a walk step   *)
(* the odd time after the latest insertion.                                *)

InsertTime(clock) == clock + 2
WalkTime(clock) == clock + 1

----------------------------------------------------------------------------
(* The dashboard (symmetric variants) *)

\* add_stock_form of appv2.py and app.py
AddStock ==
    /\ cfg.variant \in SymVariants
    /\ nextId \in cfg.ids
    /\ \E symbol \in SymbolInputs, alert \in AlertChoices, target \in TargetChoices,
          strategy \in cfg.strategies :
         stocks' = Insert(stocks, nextId,
                          IF cfg.variant = "appv2"
                          THEN NewRowV2(symbol, alert, target, strategy)
                          ELSE NewRowApp(symbol, alert, target, strategy, InsertTime(now)))
    /\ now' = InsertTime(now)
    /\ nextId' = nextId + 1
    /\ trail' = [trail EXCEPT ![nextId] = TrailNew]
    /\ last' = NoStep
    /\ manual' = NoManual
    /\ UNCHANGED <<cfg, started, pc, df, queue, tickTime, sent, sentAt, evaluated, detect, adding, alive>>

\* the Delete button
DeleteStock ==
    /\ \E id \in DOMAIN stocks :
         /\ stocks' = Remove(stocks, id)
         /\ trail' = [trail EXCEPT ![id] = TrailOff]
    /\ last' = NoStep
    /\ manual' = NoManual
    /\ UNCHANGED <<cfg, nextId, now, started, pc, df, queue, tickTime, sent, sentAt, evaluated, detect, adding, alive>>

\* the Disable/Enable button
ToggleEnabled ==
    /\ \E id \in DOMAIN stocks :
         /\ stocks' = [stocks EXCEPT ![id].enabled = IF stocks[id].enabled # 0 THEN 0 ELSE 1]
         /\ trail' = [trail EXCEPT ![id] = TrailOff]
    /\ last' = NoStep
    /\ manual' = NoManual
    /\ UNCHANGED <<cfg, nextId, now, started, pc, df, queue, tickTime, sent, sentAt, evaluated, detect, adding, alive>>

\* edit_form, Save Changes
SaveChanges ==
    /\ cfg.variant \in SymVariants
    /\ \E id \in DOMAIN stocks, alert \in AlertChoices, target \in TargetChoices,
          strategy \in cfg.strategies :
         /\ stocks' = [stocks EXCEPT ![id].alert_price = alert,
                                     ![id].target_price = target,
                                     ![id].strategy = strategy]
         /\ trail' = [trail EXCEPT ![id] = TrailOff]
    /\ last' = NoStep
    /\ manual' = NoManual
    /\ UNCHANGED <<cfg, nextId, now, started, pc, df, queue, tickTime, sent, sentAt, evaluated, detect, adding, alive>>

----------------------------------------------------------------------------
(* The scheduler *)

\* the session starts the scheduler thread
StartScheduler ==
    /\ alive
    /\ \E t \in cfg.threads \ started : started' = started \cup {t}
    /\ last' = NoStep
    /\ manual' = NoManual
    /\ UNCHANGED <<cfg, stocks, nextId, now, pc, df, queue, tickTime, trail, sent, sentAt, evaluated, detect, adding, alive>>

\* check_prices: the SELECT that loads the enabled rows
LoadTick ==
    /\ alive
    /\ \E t \in started :
         /\ pc[t] = "idle"
         /\ pc' = [pc EXCEPT ![t] = "ticking"]
         /\ df' = [df EXCEPT ![t] = EnabledRows(stocks)]
         /\ queue' = [queue EXCEPT ![t] = RowOrder(DOMAIN EnabledRows(stocks))]
         /\ tickTime' = [tickTime EXCEPT ![t] = now]
    /\ last' = NoStep
    /\ manual' = NoManual
    /\ UNCHANGED <<cfg, stocks, nextId, now, started, trail, sent, sentAt, evaluated, detect, adding, alive>>

\* check_prices: the loop is over
EndTick ==
    /\ alive
    /\ \E t \in started :
         /\ pc[t] = "ticking"
         /\ queue[t] = <<>>
         /\ pc' = [pc EXCEPT ![t] = "idle"]
         /\ df' = [df EXCEPT ![t] = EmptyTable]
    /\ last' = NoStep
    /\ manual' = NoManual
    /\ UNCHANGED <<cfg, stocks, nextId, now, started, queue, tickTime, trail, sent, sentAt, evaluated, detect, adding, alive>>

\* faulty variant: the walk gives up the rows that are left
WalkedGivesUp(t) ==
    /\ queue' = [queue EXCEPT ![t] = <<>>]
    /\ UNCHANGED <<cfg, nextId, now, started, pc, df, tickTime>>

\* the walk leaves the row it just handled
Walked(t) ==
    /\ alive
    /\ queue' = [queue EXCEPT ![t] = Tail(queue[t])]
    /\ UNCHANGED <<cfg, nextId, now, started, pc, df, tickTime>>

\* faulty variant: a row without a quote is switched off
SkipSwitchesOff(t, id) ==
    /\ stocks' = IF id \in DOMAIN stocks THEN [stocks EXCEPT ![id].enabled = 0] ELSE stocks
    /\ UNCHANGED <<sent, sentAt, evaluated, detect, adding, alive>>
    /\ manual' = NoManual
    /\ last' = Step(t, id, None, <<>>)
    /\ trail' = trail

\* the row is skipped: nothing is sent, nothing is written
Skip(t, id) ==
    /\ stocks' = stocks
    /\ UNCHANGED <<sent, sentAt, evaluated, detect, adding, alive>>
    /\ manual' = NoManual
    /\ last' = Step(t, id, None, <<>>)
    /\ trail' = trail

\* faulty variant: the write of a row whose id is gone stores the loaded row
CheckRowV2Upsert ==
    /\ cfg.variant = "appv2"
    /\ \E t \in started :
         /\ pc[t] = "ticking"
         /\ queue[t] # <<>>
         /\ LET id == Head(queue[t])
                row == df[t][id]
            IN \E current \in cfg.quotes \cup {None} :
                 IF current = None
                 THEN Skip(t, id)
                 ELSE /\ stocks' = IF id \in DOMAIN stocks
                                   THEN [stocks EXCEPT ![id] = WritesV2(@, row, current)]
                                   ELSE Insert(stocks, id, WritesV2(row, row, current))
                      /\ UNCHANGED <<sent, sentAt, evaluated, detect, adding, alive>>
                      /\ manual' = NoManual
                      /\ last' = Step(t, id, current, EventsV2(row, current))
                      /\ trail' = [trail EXCEPT ![id] =
                                      Record(@, current, EventsV2(row, current))]
         /\ Walked(t)

\* check_prices of appv2.py / appv1bk.py, one loaded row
CheckRowV2 ==
    /\ cfg.variant = "appv2"
    /\ \E t \in started :
         /\ pc[t] = "ticking"
         /\ queue[t] # <<>>
         /\ LET id == Head(queue[t])
                row == df[t][id]
            IN \E current \in cfg.quotes \cup {None} :
                 IF current = None
                 THEN Skip(t, id)
                 ELSE /\ stocks' = IF id \in DOMAIN stocks
                                   THEN [stocks EXCEPT ![id] = WritesV2(@, row, current)]
                                   ELSE stocks
                      /\ UNCHANGED <<sent, sentAt, evaluated, detect, adding, alive>>
                      /\ manual' = NoManual
                      /\ last' = Step(t, id, current, EventsV2(row, current))
                      /\ trail' = [trail EXCEPT ![id] =
                                      Record(@, current, EventsV2(row, current))]
         /\ Walked(t)

\* check_prices of app.py, one loaded row
CheckRowApp ==
    /\ cfg.variant = "app"
    /\ \E t \in started :
         /\ pc[t] = "ticking"
         /\ queue[t] # <<>>
         /\ LET id == Head(queue[t])
                row == df[t][id]
                current_time == WalkTime(now)
                added_time == IF row.added_time # None THEN row.added_time ELSE current_time
            IN \E current \in cfg.quotes \cup {None} :
                 IF row.symbol = "" \/ current = None
                 THEN Skip(t, id)
                 ELSE IF current_time <= added_time
                 THEN /\ stocks' = stocks
                      /\ UNCHANGED <<sent, sentAt, evaluated, detect, adding, alive>>
                      /\ manual' = NoManual
                      /\ last' = Step(t, id, current, <<>>)
                      /\ trail' = [trail EXCEPT ![id] = Record(@, current, <<>>)]
                 ELSE /\ stocks' = IF id \in DOMAIN stocks
                                   THEN [stocks EXCEPT ![id] =
                                           WritesApp(@, row, current, current_time)]
                                   ELSE stocks
                      /\ UNCHANGED <<sent, sentAt, evaluated, detect, adding, alive>>
                      /\ manual' = NoManual
                      /\ last' = Step(t, id, current, EventsApp(row, current))
                      /\ trail' = [trail EXCEPT ![id] =
                                      Record(@, current, EventsApp(row, current))]
         /\ Walked(t)

----------------------------------------------------------------------------
(* The cooldown variants *)

\* time passes
Advance ==
    /\ cfg.variant \in V20Programs
    /\ now < ClockStep + MaxAdvances * ClockStep
    /\ now' = now + ClockStep
    /\ last' = NoStep
    /\ manual' = NoManual
    /\ UNCHANGED <<cfg, stocks, nextId, started, pc, df, queue, tickTime, trail, sent, sentAt, evaluated, detect, adding, alive>>

\* add_stock_form of app6.py / add_stock of shedular.py
AddStockV20 ==
    /\ cfg.variant \in V20Programs
    /\ nextId \in cfg.ids
    /\ \E symbol \in SymbolInputs, strategy \in cfg.strategies :
         /\ ~\E id \in DOMAIN stocks : /\ stocks[id].symbol = Upper(symbol)
                                       /\ stocks[id].strategy = strategy
         /\ \E initial \in CdInitialPrices, range \in CdRanges, cooldown \in Cooldowns :
              stocks' = Insert(stocks, nextId,
                               NewRowV20(symbol, initial, range[1], range[2],
                                         strategy, now, cooldown))
    /\ nextId' = nextId + 1
    /\ last' = NoStep
    /\ manual' = NoManual
    /\ UNCHANGED <<cfg, now, started, pc, df, queue, tickTime, trail, sent, sentAt, evaluated, detect, adding, alive>>

\* edit_form of app6.py, Save Changes
SaveChangesV20 ==
    /\ cfg.variant \in CdVariants
    /\ \E id \in DOMAIN stocks, alert \in CdAlertEdits, target \in CdTargetEdits :
         stocks' = [stocks EXCEPT ![id].alert_price = alert,
                                  ![id].target_price = target]
    /\ last' = NoStep
    /\ manual' = NoManual
    /\ UNCHANGED <<cfg, nextId, now, started, pc, df, queue, tickTime, trail, sent, sentAt, evaluated, detect, adding, alive>>

\* the sidebar's Send Manual Notification: the signals of every enabled row
\* are sent, nothing is written
ManualNotification ==
    /\ cfg.variant \in CdVariants
    /\ \E quotes \in [DOMAIN EnabledRows(stocks) -> cfg.quotes \cup {None}] :
         LET signals(id) == IF id \in DOMAIN quotes /\ quotes[id] # None
                            THEN SignalsV20(stocks[id], quotes[id], now)
                            ELSE <<>>
         IN /\ sent' = [id \in StockIds |-> sent[id] \cup Kinds(signals(id))]
            /\ sentAt' = [id \in StockIds |-> Stamp(sentAt[id], signals(id), now)]
            /\ manual' = [id \in StockIds |-> signals(id)]
    /\ last' = NoStep
    /\ UNCHANGED <<cfg, stocks, nextId, now, started, pc, df, queue, tickTime, trail,
                   evaluated, detect, adding, alive>>

\* check_prices of app6.py / shedular.py, one loaded row
CheckRowV20 ==
    /\ cfg.variant \in V20Programs
    /\ \E t \in started :
         /\ pc[t] = "ticking"
         /\ queue[t] # <<>>
         /\ LET id == Head(queue[t])
                row == df[t][id]
                current_time == tickTime[t]
            IN \E current \in cfg.quotes \cup {None} :
                 IF current = None
                 THEN Skip(t, id)
                 ELSE LET events == EventsV20(row, current, current_time)
                      IN /\ stocks' = IF id \in DOMAIN stocks
                                      THEN [stocks EXCEPT ![id] =
                                              WritesV20(@, row, current, current_time)]
                                      ELSE stocks
                         /\ sent' = [sent EXCEPT ![id] = @ \cup Kinds(events)]
                         /\ sentAt' = [sentAt EXCEPT ![id] = Stamp(@, events, now)]
                         /\ evaluated' = evaluated \cup {id}
                         /\ manual' = NoManual
                         /\ UNCHANGED <<detect, adding, alive>>
                         /\ last' = Step(t, id, current, events)
                         /\ trail' = trail
         /\ Walked(t)

----------------------------------------------------------------------------
(* Failures *)

\* quotes of the runs with failures
OpsQuotes == {120}

\* the UPDATEs that follow the first n - 1 messages of a row of app.py
WritesAppUpTo(stored, row, current, time, n) ==
    LET done == Kinds(SubSeq(EventsApp(row, current), 1, n - 1))
        a == IF "Alert" \in done THEN UpdateAlertApp(stored, row, current, time) ELSE stored
        b == IF "Target" \in done THEN UpdateTargetApp(a, row, current, time) ELSE a
        c == IF "PreAlert" \in done THEN UpdatePreAlert(b, row, current) ELSE b
    IN IF "PreTarget" \in done THEN UpdatePreTarget(c, row, current) ELSE c

\* check_prices: the connect or the SELECT raises; nothing catches it below
\* run_scheduler, whose thread ends
LoadFails ==
    /\ \E t \in started :
         /\ pc[t] = "idle"
         /\ pc' = [pc EXCEPT ![t] = "dead"]
    /\ last' = NoStep
    /\ manual' = NoManual
    /\ UNCHANGED <<cfg, stocks, nextId, now, started, df, queue, tickTime, trail,
                   sent, sentAt, evaluated, detect, adding, alive>>

\* check_prices of app.py, one loaded row in which a call raises: the
\* delivery of a message (caught in send_telegram_message, the row goes on)
\* or the n-th UPDATE (caught by the row's except, the rest of the row is
\* abandoned)
CheckRowFails ==
    /\ cfg.variant = "app"
    /\ \E t \in started :
         /\ pc[t] = "ticking"
         /\ queue[t] # <<>>
         /\ LET id == Head(queue[t])
                row == df[t][id]
                current_time == WalkTime(now)
            IN \E current \in cfg.quotes, fault \in {"delivery", "write"} :
                 LET events == EventsApp(row, current)
                 IN /\ row.symbol # ""
                    /\ events # <<>>
                    /\ \E n \in 1..Len(events) :
                         LET sends == IF fault = "write" THEN SubSeq(events, 1, n) ELSE events
                             writes(stored) ==
                                 IF fault = "write"
                                 THEN WritesAppUpTo(stored, row, current, current_time, n)
                                 ELSE WritesApp(stored, row, current, current_time)
                         IN /\ stocks' = IF id \in DOMAIN stocks
                                         THEN [stocks EXCEPT ![id] = writes(@)]
                                         ELSE stocks
                            /\ last' = FaultStep(t, id, current, sends, fault)
                            /\ trail' = [trail EXCEPT ![id] = Record(@, current, sends)]
         /\ Walked(t)
    /\ manual' = NoManual
    /\ UNCHANGED <<sent, sentAt, evaluated, detect, adding, alive>>

\* get_current_price_nse: the GET of the quote has no timeout and the
\* server never answers
Stall ==
    /\ cfg.variant \in SymVariants
    /\ \E t \in started :
         /\ pc[t] = "ticking"
         /\ queue[t] # <<>>
         /\ pc' = [pc EXCEPT ![t] = "stalled"]
    /\ last' = NoStep
    /\ manual' = NoManual
    /\ UNCHANGED <<cfg, stocks, nextId, now, started, df, queue, tickTime, trail,
                   sent, sentAt, evaluated, detect, adding, alive>>

----------------------------------------------------------------------------
(* The range detector of get_stock_data (app6.py, shedular.py): daily *)
(* candles, oldest first, prices in whole rupees *)

MaxCandles == 3

Candles ==
    {[Open |-> 100, High |-> 110, Low |-> 100, Close |-> 110],
     [Open |-> 110, High |-> 120, Low |-> 110, Close |-> 120],
     [Open |-> 110, High |-> 119, Low |-> 110, Close |-> 119],
     [Open |-> 115, High |-> 115, Low |-> 105, Close |-> 105],
     [Open |-> 100, High |-> 100, Low |-> 90, Close |-> 100]}

Series == UNION {[1..n -> Candles] : n \in 0..MaxCandles}

Green(candle) == candle.Close > candle.Open

Red(candle) == candle.Close < candle.Open

\* gain_percent = ((High - Low) / Low) * 100 >= 20, for a positive Low
GainReached(current_candle, prev_candle) ==
    100 * (current_candle.High - prev_candle.Low) >= 20 * prev_candle.Low

\* faulty variant: red candles inside the run are not looked at
MomentumIgnored(hist, j, i) == FALSE

\* for k in range(j + 1, i + 1)
MomentumBroken(hist, j, i) == \E k \in (j + 1)..i : Red(hist[k])

RECURSIVE InnerLoop(_, _, _)
\* for j in range(i - 1, -1, -1), left at the first accepted j
InnerLoop(hist, i, j) ==
    IF j < 1 THEN <<>>
    ELSE IF GainReached(hist[i], hist[j]) /\ ~MomentumBroken(hist, j, i)
         THEN <<hist[j].Low, hist[i].High>>
         ELSE InnerLoop(hist, i, j - 1)

RECURSIVE OuterLoop(_, _)
\* for i in range(len(hist) - 1, -1, -1), left at the first i with a range
OuterLoop(hist, i) ==
    IF i < 1 THEN <<>>
    ELSE LET found == IF Green(hist[i]) THEN InnerLoop(hist, i, i - 1) ELSE <<>>
         IN  IF found # <<>> THEN found ELSE OuterLoop(hist, i - 1)

\* faulty variant: the scan goes on to the widest window
V20RangeWidest(hist) ==
    LET ok == {p \in (1..Len(hist)) \X (1..Len(hist)) :
                  /\ p[1] < p[2]
                  /\ Green(hist[p[2]])
                  /\ GainReached(hist[p[2]], hist[p[1]])
                  /\ ~MomentumBroken(hist, p[1], p[2])}
    IN  IF ok = {} THEN <<>>
        ELSE LET p == CHOOSE p \in ok : \A q \in ok : p[1] <= q[1]
             IN  <<hist[p[1]].Low, hist[p[2]].High>>

\* the v20_range of get_stock_data, <<>> for None
V20Range(hist) == IF hist = <<>> THEN <<>> ELSE OuterLoop(hist, Len(hist))

\* get_stock_data runs the detector on the history it fetched
Detect ==
    /\ ~detect.called
    /\ detect' = [detect EXCEPT !.called = TRUE, !.range = V20Range(detect.hist)]
    /\ UNCHANGED <<cfg, stocks, nextId, now, started, pc, df, queue, tickTime>>
    /\ UNCHANGED <<last, trail, sent, sentAt, evaluated, manual, adding, alive>>

----------------------------------------------------------------------------
(* The unique index on (symbol, strategy) of app4.py, app6.py and          *)
(* shedular.py, and the dashboard handlers that meet it.  Every script run *)
(* of a session is a thread of its own: the SELECT and the INSERT of       *)
(* add_stock_form are two steps.                                           *)

StoreVariants == {"app4", "app6"}

StoreStrategies == {"V20", "Swing"}

\* faulty variant: the table has no unique index
UniqueIndexOff(table) == TRUE

\* CREATE UNIQUE INDEX idx_symbol_strategy ON stocks (symbol, strategy)
UniqueIndex(table) ==
    \A a, b \in DOMAIN table :
        (table[a].symbol = table[b].symbol /\ table[a].strategy = table[b].strategy) => a = b

\* add_stock_form: SELECT id FROM stocks WHERE symbol = ? AND strategy = ?
\* found nothing
AddCheck ==
    /\ cfg.variant \in StoreVariants
    /\ \E s \in Sessions, symbol \in SymbolInputs, strategy \in cfg.strategies :
         /\ adding[s] = NoAdd
         /\ ~\E id \in DOMAIN stocks : /\ stocks[id].symbol = Upper(symbol)
                                       /\ stocks[id].strategy = strategy
         /\ adding' = [adding EXCEPT ![s] = [symbol |-> symbol, strategy |-> strategy]]
    /\ last' = NoStep
    /\ manual' = NoManual
    /\ UNCHANGED <<cfg, stocks, nextId, now, started, pc, df, queue, tickTime, trail>>
    /\ UNCHANGED <<sent, sentAt, evaluated, detect, alive>>

\* add_stock_form: the INSERT, which the index lets through or answers with
\* IntegrityError (caught in app4.py, ending the script run in app6.py)
AddInsert ==
    /\ cfg.variant \in StoreVariants
    /\ nextId \in cfg.ids
    /\ \E s \in Sessions :
         /\ adding[s] # NoAdd
         /\ adding' = [adding EXCEPT ![s] = NoAdd]
         /\ \E initial \in CdInitialPrices, range \in CdRanges, cooldown \in Cooldowns :
              LET inserted == Insert(stocks, nextId,
                                     NewRowV20(adding[s].symbol, initial, range[1], range[2],
                                               adding[s].strategy, now, cooldown))
              IN  IF UniqueIndex(inserted)
                  THEN stocks' = inserted /\ nextId' = nextId + 1
                  ELSE stocks' = stocks /\ nextId' = nextId
    /\ last' = NoStep
    /\ manual' = NoManual
    /\ UNCHANGED <<cfg, now, started, pc, df, queue, tickTime, trail>>
    /\ UNCHANGED <<sent, sentAt, evaluated, detect, alive>>

\* edit_form of app4.py, Save Changes: the UPDATE, which the index lets
\* through or answers with IntegrityError
SaveChangesV4 ==
    /\ cfg.variant = "app4"
    /\ \E id \in DOMAIN stocks, alert \in CdAlertEdits, target \in CdTargetEdits,
          strategy \in cfg.strategies :
         LET updated == [stocks EXCEPT ![id].alert_price = alert,
                                       ![id].target_price = target,
                                       ![id].strategy = strategy]
         IN  stocks' = IF UniqueIndex(updated) THEN updated ELSE stocks
    /\ last' = NoStep
    /\ manual' = NoManual
    /\ UNCHANGED <<cfg, nextId, now, started, pc, df, queue, tickTime, trail>>
    /\ UNCHANGED <<sent, sentAt, evaluated, detect, adding, alive>>

----------------------------------------------------------------------------
(* The end of the process.  The scheduler thread is a daemon thread: when  *)
(* the main thread ends (KeyboardInterrupt in shedular.py) the interpreter *)
(* exits without waiting for it, wherever it is.                           *)

Shutdown ==
    /\ cfg.variant \in SchedVariants
    /\ alive
    /\ alive' = FALSE
    /\ last' = NoStep
    /\ manual' = NoManual
    /\ UNCHANGED <<cfg, stocks, nextId, now, started, pc, df, queue, tickTime, trail>>
    /\ UNCHANGED <<sent, sentAt, evaluated, detect, adding>>

----------------------------------------------------------------------------
(* Specifications *)

\* one run of one program: an empty table, no scheduler started
Init ==
    /\ cfg \in {[variant |-> v, ids |-> {1}, threads |-> {1}, strategies |-> {"Buy"},
                 quotes |-> IF v \in CdVariants THEN CdQuotes ELSE Quotes] :
                   v \in SymVariants \cup CdVariants}
    /\ stocks = EmptyTable
    /\ nextId = 1
    /\ now = IF cfg.variant \in CdVariants THEN ClockStep ELSE 0
    /\ started = {}
    /\ pc = [t \in Threads |-> "idle"]
    /\ df = [t \in Threads |-> EmptyTable]
    /\ queue = [t \in Threads |-> <<>>]
    /\ tickTime = [t \in Threads |-> 0]
    /\ last = NoStep
    /\ trail = [id \in StockIds |-> TrailOff]
    /\ sent = [id \in StockIds |-> {}]
    /\ sentAt = [id \in StockIds |-> NeverSent]
    /\ evaluated = {}
    /\ manual = NoManual
    /\ detect = NoDetect
    /\ adding = NoAdding
    /\ alive = TRUE

Next ==
    \/ AddStock
    \/ AddStockV20
    \/ DeleteStock
    \/ ToggleEnabled
    \/ SaveChanges
    \/ SaveChangesV20
    \/ ManualNotification
    \/ Advance
    \/ StartScheduler
    \/ LoadTick
    \/ CheckRowV2
    \/ CheckRowApp
    \/ CheckRowV20
    \/ EndTick

Spec == Init /\ [][Next]_vars

\* app.py with failures: two rows walked by one scheduler, or one row and
\* two sessions, each with its scheduler
InitOps ==
    /\ cfg \in {[variant |-> "app", ids |-> {1, 2}, threads |-> {1},
                 strategies |-> {"Buy"}, quotes |-> OpsQuotes],
                [variant |-> "app", ids |-> {1}, threads |-> {1, 2},
                 strategies |-> {"Buy"}, quotes |-> OpsQuotes]}
    /\ stocks = EmptyTable
    /\ nextId = 1
    /\ now = 0
    /\ started = {}
    /\ pc = [t \in Threads |-> "idle"]
    /\ df = [t \in Threads |-> EmptyTable]
    /\ queue = [t \in Threads |-> <<>>]
    /\ tickTime = [t \in Threads |-> 0]
    /\ last = NoStep
    /\ trail = [id \in StockIds |-> TrailOff]
    /\ sent = [id \in StockIds |-> {}]
    /\ sentAt = [id \in StockIds |-> NeverSent]
    /\ evaluated = {}
    /\ manual = NoManual
    /\ detect = NoDetect
    /\ adding = NoAdding
    /\ alive = TRUE

\* the steps of a running tick
WalkOps == CheckRowApp \/ CheckRowFails \/ EndTick

NextOps ==
    \/ AddStock
    \/ StartScheduler
    \/ LoadTick
    \/ LoadFails
    \/ Stall
    \/ WalkOps

\* a tick that is due starts, and a tick that can go on does
SpecOps == InitOps /\ [][NextOps]_vars /\ WF_vars(LoadTick) /\ WF_vars(WalkOps)

\* the detector alone, on every series of at most MaxCandles candles
InitRange ==
    /\ cfg = [variant |-> "app6", ids |-> {1}, threads |-> {1},
              strategies |-> {"Buy"}, quotes |-> CdQuotes]
    /\ stocks = EmptyTable
    /\ nextId = 1
    /\ now = ClockStep
    /\ started = {}
    /\ pc = [t \in Threads |-> "idle"]
    /\ df = [t \in Threads |-> EmptyTable]
    /\ queue = [t \in Threads |-> <<>>]
    /\ tickTime = [t \in Threads |-> 0]
    /\ last = NoStep
    /\ trail = [id \in StockIds |-> TrailOff]
    /\ sent = [id \in StockIds |-> {}]
    /\ sentAt = [id \in StockIds |-> NeverSent]
    /\ evaluated = {}
    /\ manual = NoManual
    /\ detect \in {[hist |-> h, called |-> FALSE, range |-> <<>>] : h \in Series}
    /\ adding = NoAdding
    /\ alive = TRUE

NextRange == Detect

SpecRange == InitRange /\ [][NextRange]_vars

\* the dashboards of the programs with the unique index, two sessions
InitStore ==
    /\ cfg \in {[variant |-> v, ids |-> {1, 2}, threads |-> {},
                 strategies |-> StoreStrategies, quotes |-> CdQuotes] : v \in StoreVariants}
    /\ stocks = EmptyTable
    /\ nextId = 1
    /\ now = ClockStep
    /\ started = {}
    /\ pc = [t \in Threads |-> "idle"]
    /\ df = [t \in Threads |-> EmptyTable]
    /\ queue = [t \in Threads |-> <<>>]
    /\ tickTime = [t \in Threads |-> 0]
    /\ last = NoStep
    /\ trail = [id \in StockIds |-> TrailOff]
    /\ sent = [id \in StockIds |-> {}]
    /\ sentAt = [id \in StockIds |-> NeverSent]
    /\ evaluated = {}
    /\ manual = NoManual
    /\ detect = NoDetect
    /\ adding = NoAdding
    /\ alive = TRUE

NextStore ==
    \/ AddCheck
    \/ AddInsert
    \/ SaveChangesV4
    \/ DeleteStock

SpecStore == InitStore /\ [][NextStore]_vars

\* shedular.py: add_stock, the scheduler thread, and the end of the process
InitStop ==
    /\ cfg = [variant |-> "shedular", ids |-> {1}, threads |-> {1},
              strategies |-> {"V20"}, quotes |-> CdQuotes]
    /\ stocks = EmptyTable
    /\ nextId = 1
    /\ now = ClockStep
    /\ started = {}
    /\ pc = [t \in Threads |-> "idle"]
    /\ df = [t \in Threads |-> EmptyTable]
    /\ queue = [t \in Threads |-> <<>>]
    /\ tickTime = [t \in Threads |-> 0]
    /\ last = NoStep
    /\ trail = [id \in StockIds |-> TrailOff]
    /\ sent = [id \in StockIds |-> {}]
    /\ sentAt = [id \in StockIds |-> NeverSent]
    /\ evaluated = {}
    /\ manual = NoManual
    /\ detect = NoDetect
    /\ adding = NoAdding
    /\ alive = TRUE

\* the steps of a running tick of shedular.py
WalkStop == CheckRowV20 \/ EndTick

NextStop ==
    \/ alive /\ AddStockV20
    \/ alive /\ Advance
    \/ StartScheduler
    \/ LoadTick
    \/ WalkStop
    \/ Shutdown

\* a tick that can go on does
SpecStop == InitStop /\ [][NextStop]_vars /\ WF_vars(WalkStop)

----------------------------------------------------------------------------
(* Reading the observation *)

\* this step is thread t walking the loaded row id
WalkStep(t, id) ==
    /\ pc[t] = "ticking"
    /\ queue[t] # <<>>
    /\ Head(queue[t]) = id
    /\ last'.thread = t
    /\ last'.id = id

\* this step evaluated the loaded row id on a fetched quote
EvalStep(t, id) == WalkStep(t, id) /\ last'.quote # None

\* an evaluation by a program of the symmetric crossing policy
SymStep(t, id) == cfg.variant \in SymVariants /\ EvalStep(t, id)

TrailQuotes(tr) == [i \in 1..Len(tr.seq) |-> tr.seq[i].quote]

\* the first k quotes of the trail are the first k elements of `prices`
Follows(tr, prices, k) ==
    /\ k <= Len(tr.seq)
    /\ k <= Len(prices)
    /\ \A i \in 1..k : tr.seq[i].quote = prices[i]

\* the crossing rule in the words of the specification
SpecCrossing(current, threshold, lastNotified) ==
    \/ (current <= threshold /\ current < lastNotified)
    \/ (current >= threshold /\ current > lastNotified)

----------------------------------------------------------------------------
(* Symmetric crossing policy *)

\* C1 as stated: in every evaluation of an entry with alertPrice > 0 an Alert
\* is emitted exactly when the crossing rule holds of the loaded entry; when
\* emitted lastNotifiedAlertPrice becomes the current price, otherwise it
\* keeps its value.
C1_AlertExactlyOnCrossing ==
    [][\A t \in Threads, id \in StockIds :
         (SymStep(t, id) /\ df[t][id].alert_price > 0) =>
           LET row == df[t][id]
               current == last'.quote
               fire == SpecCrossing(current, row.alert_price, row.last_notified_alert)
           IN /\ Has(last'.events, "Alert") <=> fire
              /\ (fire /\ id \in DOMAIN stocks) =>
                     stocks'[id].last_notified_alert = current
              /\ (~fire /\ id \in DOMAIN stocks) =>
                     stocks'[id].last_notified_alert = stocks[id].last_notified_alert]_vars

\* C1 amended: as C1, and in app.py only while no Alert was recorded for the
\* entry (alert_trigger_time is unset in the loaded entry).
C1_AlertOnCrossingOneShotInApp ==
    [][\A t \in Threads, id \in StockIds :
         (SymStep(t, id) /\ df[t][id].alert_price > 0) =>
           LET row == df[t][id]
               current == last'.quote
               fire == /\ SpecCrossing(current, row.alert_price, row.last_notified_alert)
                       /\ (cfg.variant = "app" => row.alert_trigger_time = None)
           IN /\ Has(last'.events, "Alert") <=> fire
              /\ (fire /\ id \in DOMAIN stocks) =>
                     stocks'[id].last_notified_alert = current
              /\ (~fire /\ id \in DOMAIN stocks) =>
                     stocks'[id].last_notified_alert = stocks[id].last_notified_alert]_vars

\* an Alert was just emitted and the stored entry carries the notified price
C1_Witness ==
    /\ last.id \in DOMAIN stocks
    /\ Has(last.events, "Alert")
    /\ stocks[last.id].last_notified_alert = last.quote

\* C2 as stated: once the stored status of an entry is Closed, no tick emits
\* a Target notification for it.
C2_ClosedIsTerminal ==
    [][\A t \in Threads, id \in StockIds :
         (WalkStep(t, id) /\ cfg.variant = "app" /\ id \in DOMAIN stocks
            /\ stocks[id].status = "Closed") =>
           ~Has(last'.events, "Target")]_vars

\* C3: a Target is emitted exactly when the crossing rule holds of the target
\* threshold, whatever the alert side does; the status becomes Closed when a
\* Target is emitted and keeps its value otherwise.  Fresh entry 100/120:
\* price 100 emits Alert only and the status stays Open, then price 120
\* emits Target and the status is Closed.
C3_TargetRuleAndStatus ==
    [][/\ \A t \in Threads, id \in StockIds :
            SymStep(t, id) =>
              LET row == df[t][id]
                  current == last'.quote
                  fire == /\ row.target_price > 0
                          /\ SpecCrossing(current, row.target_price, row.last_notified_target)
              IN /\ Has(last'.events, "Target") <=> fire
                 /\ (cfg.variant = "app" /\ id \in DOMAIN stocks) =>
                      /\ fire => /\ stocks'[id].status = "Closed"
                                 /\ stocks'[id].last_notified_target = current
                      /\ ~fire => stocks'[id].status = stocks[id].status
       /\ \A id \in StockIds :
            (cfg.variant = "app" /\ trail'[id].on /\ id \in DOMAIN stocks'
               /\ stocks'[id].alert_price = 100 /\ stocks'[id].target_price = 120) =>
              LET tr == trail'[id]
              IN /\ Follows(tr, <<100, 120>>, 1) =>
                      /\ Has(tr.seq[1].events, "Alert")
                      /\ ~Has(tr.seq[1].events, "Target")
                      /\ Len(tr.seq) = 1 => stocks'[id].status = "Open"
                 /\ Follows(tr, <<100, 120>>, 2) =>
                      /\ Has(tr.seq[2].events, "Target")
                      /\ Len(tr.seq) = 2 => stocks'[id].status = "Closed"]_vars

\* the fresh entry 100/120 saw 100, then 120, and is Closed
C3_Witness ==
    \E id \in DOMAIN stocks :
        /\ cfg.variant = "app"
        /\ trail[id].on
        /\ stocks[id].alert_price = 100
        /\ stocks[id].target_price = 120
        /\ TrailQuotes(trail[id]) = <<100, 120>>
        /\ Has(trail[id].seq[1].events, "Alert")
        /\ Has(trail[id].seq[2].events, "Target")
        /\ stocks[id].status = "Closed"

\* the entry whose evaluations since its insertion are all in the trail
Fresh(id) == id \in DOMAIN stocks /\ trail[id].on

\* C4 as stated: a fresh entry with alertPrice 100 walked over 105, 95, 90
\* emits Alert on the first tick and on neither the second nor the third;
\* the tick after them emits Alert only for a price below 90.
C4_FiresOnceOverSequence ==
    [][/\ \A id \in StockIds :
            (cfg.variant \in SymVariants /\ Fresh(id)' /\ stocks'[id].alert_price = 100) =>
              \A k \in 1..3 :
                Follows(trail'[id], <<105, 95, 90>>, k) =>
                  (Has(trail'[id].seq[k].events, "Alert") <=> k = 1)
       /\ \A t \in Threads, id \in StockIds :
            (SymStep(t, id) /\ Fresh(id) /\ stocks[id].alert_price = 100
               /\ TrailQuotes(trail[id]) = <<105, 95, 90>>) =>
              (Has(last'.events, "Alert") => last'.quote < 90)]_vars

\* C4 amended: over 105, 95, 90 appv2.py emits Alert on all three ticks (95
\* and 90 are at or below alertPrice and each is below the last notified
\* price) and on the next tick exactly for a price below 90 or at least 100;
\* app.py emits Alert on the first tick only and on no later tick.
C4_SequencePerProgram ==
    [][/\ \A id \in StockIds :
            (cfg.variant \in SymVariants /\ Fresh(id)' /\ stocks'[id].alert_price = 100) =>
              \A k \in 1..3 :
                Follows(trail'[id], <<105, 95, 90>>, k) =>
                  (Has(trail'[id].seq[k].events, "Alert")
                     <=> (k = 1 \/ cfg.variant = "appv2"))
       /\ \A t \in Threads, id \in StockIds :
            (SymStep(t, id) /\ Fresh(id) /\ stocks[id].alert_price = 100
               /\ TrailQuotes(trail[id]) = <<105, 95, 90>>) =>
              (Has(last'.events, "Alert")
                 <=> (cfg.variant = "appv2" /\ (last'.quote < 90 \/ last'.quote >= 100)))]_vars

\* appv2.py: the fresh entry with alertPrice 100 saw 105, 95, 90 and each emitted Alert
C4_Witness ==
    \E id \in DOMAIN stocks :
        /\ cfg.variant = "appv2"
        /\ trail[id].on
        /\ stocks[id].alert_price = 100
        /\ TrailQuotes(trail[id]) = <<105, 95, 90>>
        /\ \A k \in 1..3 : Has(trail[id].seq[k].events, "Alert")
        /\ stocks[id].last_notified_alert = 90

\* the two evaluations i < j of a fresh entry, the first with an Alert and no
\* Alert between them
AlertThenNext(id, i, j) ==
    /\ i < j
    /\ j <= Len(trail[id].seq)
    /\ Has(trail[id].seq[i].events, "Alert")
    /\ \A k \in (i + 1)..(j - 1) : ~Has(trail[id].seq[k].events, "Alert")

\* C5 as stated: after an Alert at price p the next Alert is emitted only
\* for a price further past alertPrice than p on the side of p, and never
\* for a price between alertPrice and p.
C5_MonotonicSameDirection ==
    \A id \in StockIds :
        (cfg.variant \in SymVariants /\ Fresh(id) /\ stocks[id].alert_price > 0) =>
          \A i, j \in 1..Len(trail[id].seq) :
            AlertThenNext(id, i, j) =>
              LET a == stocks[id].alert_price
                  p == trail[id].seq[i].quote
                  c == trail[id].seq[j].quote
              IN Has(trail[id].seq[j].events, "Alert") =>
                   \/ (p >= a /\ c > p)
                   \/ (p <= a /\ c < p)

\* C5 amended: after an Alert at price p no later tick emits an Alert for p
\* or for a price strictly between alertPrice and p; in appv2.py the next
\* Alert is emitted exactly for a price further past p on the side of p or
\* for a price at or beyond alertPrice on the other side; in app.py no
\* later Alert is emitted at all.
C5_MonotonicOrOtherSide ==
    \A id \in StockIds :
        (cfg.variant \in SymVariants /\ Fresh(id) /\ stocks[id].alert_price > 0) =>
          \A i, j \in 1..Len(trail[id].seq) :
            AlertThenNext(id, i, j) =>
              LET a == stocks[id].alert_price
                  p == trail[id].seq[i].quote
                  c == trail[id].seq[j].quote
              IN Has(trail[id].seq[j].events, "Alert") <=>
                   /\ cfg.variant = "appv2"
                   /\ \/ (p > a /\ (c > p \/ c <= a))
                      \/ (p < a /\ (c < p \/ c >= a))
                      \/ (p = a /\ c # a)

\* appv2.py: an Alert at 105 above alertPrice 100, then an Alert at 95 below it
C5_Witness ==
    \E id \in DOMAIN stocks :
        /\ trail[id].on
        /\ stocks[id].alert_price = 100
        /\ Len(trail[id].seq) >= 2
        /\ trail[id].seq[1].quote = 105
        /\ Has(trail[id].seq[1].events, "Alert")
        /\ trail[id].seq[2].quote = 95
        /\ Has(trail[id].seq[2].events, "Alert")

----------------------------------------------------------------------------
(* Proximity policy (app.py) *)

\* t - 3% * t <= current <= t + 3% * t, in hundredths
SpecBand(current, t) == 97 * t <= 100 * current /\ 100 * current <= 103 * t

\* C6: in every evaluation and for each threshold t > 0 a PreAlert/PreTarget
\* is emitted exactly when the price is within 3% of t and differs from the
\* marker of that threshold in the loaded entry; when emitted the marker
\* becomes the price, otherwise it keeps its value; the crossing events of
\* the same evaluation play no part.
C6_ProximityRule ==
    [][\A t \in Threads, id \in StockIds :
         (EvalStep(t, id) /\ cfg.variant = "app") =>
           LET row == df[t][id]
               current == last'.quote
               pre == SpecBand(current, row.alert_price)
                        /\ current # row.last_notified_pre_alert
               pretarget == SpecBand(current, row.target_price)
                              /\ current # row.last_notified_pre_target
           IN /\ row.alert_price > 0 =>
                   /\ Has(last'.events, "PreAlert") <=> pre
                   /\ id \in DOMAIN stocks =>
                        stocks'[id].last_notified_pre_alert =
                          IF pre THEN current ELSE stocks[id].last_notified_pre_alert
              /\ row.target_price > 0 =>
                   /\ Has(last'.events, "PreTarget") <=> pretarget
                   /\ id \in DOMAIN stocks =>
                        stocks'[id].last_notified_pre_target =
                          IF pretarget THEN current ELSE stocks[id].last_notified_pre_target]_vars

\* one evaluation emitted Alert and PreAlert together and moved the marker
C6_Witness ==
    /\ cfg.variant = "app"
    /\ last.id \in DOMAIN stocks
    /\ last.quote = 100
    /\ stocks[last.id].alert_price = 100
    /\ Has(last.events, "Alert")
    /\ Has(last.events, "PreAlert")
    /\ stocks[last.id].last_notified_pre_alert = 100

\* C7 as stated: with an unchanged threshold a price inside the band that
\* already emitted a PreAlert does not emit one again, and a price inside
\* the band that did not yet emit one does (98, 99, 98: nothing on the third).
C7_DedupePerPrice ==
    \A id \in StockIds :
        (cfg.variant = "app" /\ Fresh(id) /\ stocks[id].alert_price > 0) =>
          \A j \in 1..Len(trail[id].seq) :
            Has(trail[id].seq[j].events, "PreAlert") <=>
              /\ SpecBand(trail[id].seq[j].quote, stocks[id].alert_price)
              /\ \A i \in 1..(j - 1) : trail[id].seq[i].quote # trail[id].seq[j].quote

\* C7 amended: with an unchanged threshold a price inside the band emits a
\* PreAlert unless it equals the price of the latest PreAlert, so only an
\* immediate repetition is suppressed (98, 99, 98 emits three PreAlerts;
\* 98, 98 emits one).
C7_DedupeLatestPrice ==
    \A id \in StockIds :
        (cfg.variant = "app" /\ Fresh(id) /\ stocks[id].alert_price > 0) =>
          \A j \in 1..Len(trail[id].seq) :
            Has(trail[id].seq[j].events, "PreAlert") <=>
              /\ SpecBand(trail[id].seq[j].quote, stocks[id].alert_price)
              /\ \A i \in 1..(j - 1) :
                   (/\ Has(trail[id].seq[i].events, "PreAlert")
                    /\ \A k \in (i + 1)..(j - 1) : ~Has(trail[id].seq[k].events, "PreAlert"))
                   => trail[id].seq[i].quote # trail[id].seq[j].quote

\* alertPrice 100 saw 98, 99, 98 and emitted PreAlert each time
C7_Witness ==
    \E id \in DOMAIN stocks :
        /\ cfg.variant = "app"
        /\ trail[id].on
        /\ stocks[id].alert_price = 100
        /\ TrailQuotes(trail[id]) = <<98, 99, 98>>
        /\ \A k \in 1..3 : Has(trail[id].seq[k].events, "PreAlert")

----------------------------------------------------------------------------
(* Idempotence *)

\* an evaluation of a stored entry that was loaded as it is stored
FaithfulStep(t, id) ==
    /\ EvalStep(t, id)
    /\ id \in DOMAIN stocks
    /\ df[t][id] = stocks[id]

\* the times of a later evaluation by the tick's clock
LaterTimes(time) == {time + k * ClockStep : k \in 0..MaxAdvances}

\* evaluating the stored entry again at price p sends nothing and writes nothing
QuietAt(entry, p, time) ==
    IF cfg.variant = "appv2"
    THEN EventsV2(entry, p) = <<>> /\ WritesV2(entry, entry, p) = entry
    ELSE IF cfg.variant = "app"
    THEN EventsApp(entry, p) = <<>> /\ WritesApp(entry, entry, p, time) = entry
    ELSE /\ EventsV20(entry, p, time) = <<>>
         /\ WritesV20(entry, entry, p, time) = entry

\* C8 as stated: under both policies, once an evaluation of an entry at
\* price p is persisted, evaluating the entry again at p (in the same or in
\* a later tick) sends no message and changes nothing.
C8_Idempotent ==
    [][\A t \in Threads, id \in StockIds :
         FaithfulStep(t, id) =>
           IF cfg.variant \in SymVariants
           THEN QuietAt(stocks'[id], last'.quote, WalkTime(now))
           ELSE \A time \in LaterTimes(tickTime[t]) :
                  QuietAt(stocks'[id], last'.quote, time)]_vars

\* C8 amended: the symmetric policy (crossing and proximity) is idempotent.
\* Under the cooldown policy an evaluation that sent BuyAlert is never
\* followed by another BuyAlert at the same price, but one that sent
\* SellAlert at time `now` sends SellAlert again at the same price exactly
\* when the cooldown has passed since `now`.
C8_IdempotentSymmetricOnly ==
    [][\A t \in Threads, id \in StockIds :
         FaithfulStep(t, id) =>
           IF cfg.variant \in SymVariants
           THEN QuietAt(stocks'[id], last'.quote, WalkTime(now))
           ELSE \A time \in LaterTimes(tickTime[t]) :
                  LET again == EventsV20(stocks'[id], last'.quote, time)
                  IN /\ Has(last'.events, "BuyAlert") => ~Has(again, "BuyAlert")
                     /\ Has(last'.events, "SellAlert") =>
                          (Has(again, "SellAlert")
                             <=> time - tickTime[t] >= stocks'[id].notification_cooldown)]_vars

\* app.py sent Alert and PreAlert at one price and the stored entry is quiet at it
C8_Witness ==
    /\ cfg.variant = "app"
    /\ last.id \in DOMAIN stocks
    /\ Has(last.events, "Alert")
    /\ Has(last.events, "PreAlert")
    /\ QuietAt(stocks[last.id], last.quote, WalkTime(now))

----------------------------------------------------------------------------
(* One-shot cooldown policy *)

\* an evaluation by a program of the cooldown policy
CdStep(t, id) == cfg.variant \in CdVariants /\ EvalStep(t, id)

\* the creation guard in the words of the specification
SpecSuppressed(row, current, time) ==
    /\ time - row.created_at < 60
    /\ row.alert_triggered = 0
    /\ row.alert_price > 0
    /\ 100 * Abs(current - row.alert_price) <= row.alert_price

SpecLastTime(stamp, createdAt) == IF stamp > 0 THEN stamp ELSE createdAt

\* C9: in an evaluation that the creation guard does not suppress (prices
\* above epsilon), BuyAlert is sent exactly when the loaded entry has
\* alertTriggered = false, current <= alertPrice + 0.01 and the tick's time
\* is at least notificationCooldown past lastAlertTime (createdAt if unset);
\* when sent, the stored entry gets alertTriggered = true and lastAlertTime
\* = the tick's time.
C9_BuyRule ==
    [][\A t \in Threads, id \in StockIds :
         (CdStep(t, id) /\ ~SpecSuppressed(df[t][id], last'.quote, tickTime[t])) =>
           LET row == df[t][id]
               current == last'.quote
               time == tickTime[t]
               buy == /\ row.alert_triggered = 0
                      /\ current <= row.alert_price + 1
                      /\ time - SpecLastTime(row.last_notified_alert, row.created_at)
                           >= row.notification_cooldown
           IN /\ Has(last'.events, "BuyAlert") <=> buy
              /\ (buy /\ id \in DOMAIN stocks) =>
                    /\ stocks'[id].alert_triggered = 1
                    /\ stocks'[id].last_notified_alert = time]_vars

\* a BuyAlert was just sent and the stored entry is triggered and stamped
C9_Witness ==
    /\ cfg.variant \in CdVariants
    /\ last.id \in DOMAIN stocks
    /\ Has(last.events, "BuyAlert")
    /\ stocks[last.id].alert_triggered = 1
    /\ stocks[last.id].last_notified_alert = tickTime[last.thread]

\* C10: SellAlert is sent only when the loaded entry has alertTriggered =
\* true, current >= targetPrice - 0.01 and the tick's time is at least
\* notificationCooldown past lastTargetTime (createdAt if unset), and the
\* stored entry gets lastTargetTime = the tick's time; no SellAlert of an
\* entry is sent, by a tick or by hand, unless a BuyAlert of the entry was
\* sent before.
C10_SellRuleAndOrder ==
    [][/\ \A t \in Threads, id \in StockIds :
            (CdStep(t, id) /\ Has(last'.events, "SellAlert")) =>
              LET row == df[t][id]
                  current == last'.quote
                  time == tickTime[t]
              IN /\ row.alert_triggered = 1
                 /\ current >= row.target_price - 1
                 /\ time - SpecLastTime(row.last_notified_target, row.created_at)
                      >= row.notification_cooldown
                 /\ id \in DOMAIN stocks => stocks'[id].last_notified_target = time
       /\ \A id \in StockIds :
            ("SellAlert" \in sent'[id] /\ "SellAlert" \notin sent[id]) =>
              "BuyAlert" \in sent[id]]_vars

\* a SellAlert was just sent, after a BuyAlert, and the stored entry is stamped
C10_Witness ==
    /\ cfg.variant \in CdVariants
    /\ last.id \in DOMAIN stocks
    /\ Has(last.events, "SellAlert")
    /\ sent[last.id] = {"BuyAlert", "SellAlert"}
    /\ stocks[last.id].last_notified_target = tickTime[last.thread]

\* C11: the first evaluation of an entry, less than 60 seconds after
\* createdAt (by the tick's time) and at a price within 1% of alertPrice,
\* sends nothing and leaves the stored entry as it is.
C11_CreationGuard ==
    [][\A t \in Threads, id \in StockIds :
         (/\ CdStep(t, id)
          /\ id \notin evaluated
          /\ tickTime[t] - df[t][id].created_at < 60
          /\ df[t][id].alert_price > 0
          /\ 100 * Abs(last'.quote - df[t][id].alert_price) <= df[t][id].alert_price) =>
           /\ last'.events = <<>>
           /\ stocks' = stocks]_vars

\* a price within 1% was just left alone although the cooldown had passed
C11_Witness ==
    /\ cfg.variant \in CdVariants
    /\ last.id \in DOMAIN stocks
    /\ last.quote = 5001
    /\ last.events = <<>>
    /\ sent[last.id] = {}
    /\ stocks[last.id].alert_price = 5000
    /\ stocks[last.id].alert_triggered = 0
    /\ tickTime[last.thread] - stocks[last.id].created_at
         >= stocks[last.id].notification_cooldown
    /\ tickTime[last.thread] - stocks[last.id].created_at < 60

\* this step sends the V20 message `kind` for the entry id, by a tick or by hand
TickSends(id, kind) == last'.id = id /\ Has(last'.events, kind)
ManualSends(id, kind) == Has(manual'[id], kind)

\* the entry a step sends for: the row the tick loaded, or the stored row
SentFor(id) == IF last'.id = id THEN df[last'.thread][id] ELSE stocks[id]

\* C12 as stated: a BuyAlert (a SellAlert) of an entry is never sent less
\* than notificationCooldown after the previous BuyAlert (SellAlert) of the
\* entry, nor, when it is the first, less than notificationCooldown after
\* createdAt, whatever ticks and dashboard actions the run consists of.
C12_CooldownSeparation ==
    [][\A id \in StockIds, kind \in V20Kinds :
         (cfg.variant \in CdVariants /\ (TickSends(id, kind) \/ ManualSends(id, kind))) =>
           LET previous == IF sentAt[id][kind] # None THEN sentAt[id][kind]
                           ELSE SentFor(id).created_at
           IN now - previous >= SentFor(id).notification_cooldown]_vars

\* C13 as stated: no step of a tick or of the dashboard resets
\* alertTriggered of a stored entry, and no BuyAlert is sent for an entry
\* for which a BuyAlert was sent before.
C13_OneBuyAlertPerEntry ==
    [][\A id \in StockIds :
         cfg.variant \in CdVariants =>
           /\ (id \in DOMAIN stocks /\ id \in DOMAIN stocks'
                 /\ stocks[id].alert_triggered = 1) =>
                stocks'[id].alert_triggered = 1
           /\ (TickSends(id, "BuyAlert") \/ ManualSends(id, "BuyAlert")) =>
                "BuyAlert" \notin sent[id]]_vars

----------------------------------------------------------------------------
(* The scheduler *)

\* C14 as stated: check_prices never evaluates (fetches a quote for, sends
\* for, writes to) an entry whose stored enabled flag is false, also when
\* the flag is toggled while the tick is walking its rows.
C14_DisabledNeverEvaluated ==
    [][\A t \in Threads, id \in StockIds :
         (EvalStep(t, id) /\ id \in DOMAIN stocks) => stocks[id].enabled # 0]_vars

\* the ticks in progress
Running == {t \in Threads : pc[t] \in {"ticking", "stalled"}}

\* C15 as stated: at no time are two executions of check_prices in
\* progress, however many sessions started a scheduler.
C15_TicksNeverOverlap == Cardinality(Running) <= 1

\* C16: a walk step in which the evaluation of the row fails (no quote, a
\* delivery that raises, an UPDATE that raises) leaves the tick running on
\* the rows it loaded, with every row after the failed one still to be
\* walked.
C16_FailureIsolation ==
    [][\A t \in Threads, id \in StockIds :
         (WalkStep(t, id) /\ (last'.fault # "none" \/ last'.quote = None)) =>
           /\ pc'[t] = "ticking"
           /\ df'[t] = df[t]
           /\ queue'[t] = Tail(queue[t])]_vars

\* the UPDATE after the Alert of row 1 raised, and the tick goes on to row 2
C16_Witness ==
    /\ last.id = 1
    /\ last.fault = "write"
    /\ last.events = <<"Alert">>
    /\ 1 \in DOMAIN stocks
    /\ stocks[1].last_notified_alert = 0
    /\ pc[last.thread] = "ticking"
    /\ queue[last.thread] = <<2>>

\* C17 as stated: whatever fails in a tick, run_scheduler of a started
\* thread never ends.
C17_SchedulerNeverStops == \A t \in Threads : pc[t] # "dead"

\* C18: a walk step that gets no quote for its row sends nothing and leaves
\* the whole table as it is.
C18_QuoteUnavailable ==
    [][\A t \in Threads, id \in StockIds :
         (WalkStep(t, id) /\ last'.quote = None) =>
           /\ last'.events = <<>>
           /\ stocks' = stocks]_vars

\* a row that a quote of 105 would have alerted was just skipped for want of a quote
C18_Witness ==
    /\ last.id \in DOMAIN stocks
    /\ last.quote = None
    /\ last.events = <<>>
    /\ cfg.variant \in SymVariants
    /\ stocks[last.id].enabled = 1
    /\ AlertFiresV2(stocks[last.id], 105)

\* C19 as stated: when the call for one row does not return, the row after
\* it in the tick is still eventually walked.
C19_StallDoesNotBlock ==
    \A t \in Threads, id \in StockIds :
        (pc[t] = "stalled" /\ Len(queue[t]) > 1 /\ queue[t][2] = id)
            ~> (last.thread = t /\ last.id = id)

----------------------------------------------------------------------------
(* Range detector *)

\* the pairs the specification accepts: j before i, candle i bullish, a rise
\* of at least 20% from the low of j to the high of i, no bearish candle
\* strictly between them
SpecValidPair(hist, j, i) ==
    /\ j < i
    /\ hist[i].Close > hist[i].Open
    /\ 5 * (hist[i].High - hist[j].Low) >= hist[j].Low
    /\ \A k \in 1..Len(hist) : (j < k /\ k < i) => ~(hist[k].Close < hist[k].Open)

\* C20: the range the detector returns is (low_j, high_i) of a pair the
\* specification accepts, and it returns none exactly when the series has
\* no such pair.
C20_RangeValidity ==
    detect.called =>
        LET hist == detect.hist
            pairs == {p \in (1..Len(hist)) \X (1..Len(hist)) : SpecValidPair(hist, p[1], p[2])}
        IN  /\ detect.range # <<>> =>
                \E p \in pairs : detect.range = <<hist[p[1]].Low, hist[p[2]].High>>
            /\ detect.range = <<>> <=> pairs = {}

\* no range is returned for a rise of 20% with a bearish candle put inside it
C20_Witness ==
    /\ detect.called
    /\ detect.range = <<>>
    /\ Len(detect.hist) = 3
    /\ detect.hist[3].Close > detect.hist[3].Open
    /\ 5 * (detect.hist[3].High - detect.hist[1].Low) >= detect.hist[1].Low
    /\ detect.hist[2].Close < detect.hist[2].Open

\* C21: when a range is returned it is that of the newest bullish candle i
\* that has a qualifying pair, with the nearest j before i whose low is at
\* least 20% under the high of i, also when an older or wider pair has a
\* larger gain.
C21_FirstFound ==
    (detect.called /\ detect.range # <<>>) =>
        LET hist == detect.hist
            idx == 1..Len(hist)
            heads == {i \in idx : \E j \in idx : SpecValidPair(hist, j, i)}
            newest == CHOOSE i \in heads : \A i2 \in heads : i2 <= i
            tails == {j \in idx : j < newest
                                  /\ 5 * (hist[newest].High - hist[j].Low) >= hist[j].Low}
            nearest == CHOOSE j \in tails : \A j2 \in tails : j2 <= j
        IN  /\ heads # {}
            /\ tails # {}
            /\ detect.range = <<hist[nearest].Low, hist[newest].High>>

\* the nearer pair (100, 120) is returned though the pair with the older
\* candle, low 90, has the larger gain
C21_Witness ==
    /\ detect.called
    /\ Len(detect.hist) = 3
    /\ detect.hist[1].Low = 90
    /\ detect.hist[2].Low = 100
    /\ detect.hist[3].High = 120
    /\ detect.range = <<100, 120>>

----------------------------------------------------------------------------
(* The store *)

\* the (symbol, strategy) pair of the submission is already stored
Taken(add) ==
    \E id \in DOMAIN stocks : /\ stocks[id].symbol = Upper(add.symbol)
                              /\ stocks[id].strategy = add.strategy

\* C22: in the programs with the unique index no two stored entries ever
\* share their (symbol, strategy) pair, whatever two sessions submit and
\* edit, and the INSERT of a submission whose pair is stored by then leaves
\* the table as it is.
C22_UniquePair ==
    /\ \A a, b \in DOMAIN stocks :
          (stocks[a].symbol = stocks[b].symbol /\ stocks[a].strategy = stocks[b].strategy)
             => a = b
    /\ [][/\ \A a, b \in DOMAIN stocks' :
               (stocks'[a].symbol = stocks'[b].symbol
                /\ stocks'[a].strategy = stocks'[b].strategy) => a = b
          /\ \A s \in Sessions :
               (adding[s] # NoAdd /\ adding'[s] = NoAdd /\ Taken(adding[s]))
                  => stocks' = stocks]_vars

\* both sessions passed the SELECT with the same pair, one has inserted, the
\* other is about to
C22_Witness ==
    /\ cfg.variant \in StoreVariants
    /\ \E s \in Sessions : adding[s] # NoAdd /\ Taken(adding[s])

----------------------------------------------------------------------------
(* Who sends, who writes *)

\* C23 as stated: no dashboard step sends a BuyAlert or a SellAlert; every
\* one that is sent is sent by a walk step of a tick, which writes the state
\* of the entry in the same step.
C23_OnlySchedulerSends ==
    [][cfg.variant \in CdVariants =>
         \A id \in StockIds, kind \in V20Kinds :
            /\ ~ManualSends(id, kind)
            /\ (kind \in sent'[id] \ sent[id]) => TickSends(id, kind)]_vars

----------------------------------------------------------------------------
(* Shutdown *)

----------------------------------------------------------------------------
(* Sending and writing *)

\* the walk step just taken has delivered the Alert for its row
AlertDelivered == Has(last'.events, "Alert") /\ last'.fault # "delivery"

\* C25 as stated: in every walk step of app.py the Alert of the row is
\* delivered exactly when the marker of the Alert is written to the stored
\* row, also when the write or the delivery fails.
C25_SendIffPersist ==
    [][\A t \in Threads, id \in StockIds :
         (cfg.variant = "app" /\ WalkStep(t, id) /\ id \in DOMAIN stocks) =>
            /\ AlertDelivered => stocks'[id].last_notified_alert = last'.quote
            /\ stocks'[id].last_notified_alert # stocks[id].last_notified_alert
                  => AlertDelivered]_vars

\* the columns the dashboard edits
UserColumns == {"alert_price", "target_price", "strategy", "enabled"}

UserFields(row) == [f \in UserColumns |-> row[f]]

NotificationFields(row) == [f \in (DOMAIN row) \ UserColumns |-> row[f]]

\* the step is a walk step of a tick
TickStep == last'.id # 0

\* the step is a step of the dashboard on stored rows
DashboardStep == last' = NoStep /\ stocks' # stocks

\* C26: whichever way a dashboard edit and a tick's walk of the same entry
\* interleave, the walk step leaves the edited columns of the stored row as
\* the user set them and writes its markers, and the edit leaves the
\* notification columns as the scheduler wrote them.
C26_NoLostUpdate ==
    [][\A id \in (DOMAIN stocks) \cap (DOMAIN stocks') :
         /\ TickStep =>
              /\ UserFields(stocks'[id]) = UserFields(stocks[id])
              /\ (last'.id = id /\ Has(last'.events, "Alert"))
                    => stocks'[id].last_notified_alert = last'.quote
              /\ (last'.id = id /\ Has(last'.events, "Target"))
                    => stocks'[id].last_notified_target = last'.quote
              /\ (last'.id = id /\ Has(last'.events, "BuyAlert"))
                    => stocks'[id].alert_triggered = 1
         /\ DashboardStep =>
              NotificationFields(stocks'[id]) = NotificationFields(stocks[id])]_vars

\* the user changed the thresholds of the entry after the tick loaded it;
\* the tick has then sent the Alert and written its marker, and the stored
\* row holds both
C26_Witness ==
    /\ cfg.variant = "app"
    /\ last.id \in DOMAIN stocks
    /\ last.id \in DOMAIN df[last.thread]
    /\ Has(last.events, "Alert")
    /\ stocks[last.id].last_notified_alert = last.quote
    /\ df[last.thread][last.id].alert_price = 100
    /\ stocks[last.id].alert_price = 0
    /\ stocks[last.id].target_price = 120
    /\ df[last.thread][last.id].target_price = 0

\* the columns a tick has no business with
FrameColumns ==
    {"symbol", "alert_price", "target_price", "strategy", "enabled",
     "notification_cooldown", "created_at", "initial_price", "added_time"}

\* the step belongs to a tick: its load, a walk step, or its end
SchedulerStep == TickStep \/ pc' # pc

\* C27: a step of a tick neither inserts nor deletes a row, leaves every row
\* but the one it walks as it is, and of that row leaves symbol, alert price,
\* target price, strategy, enabled, cooldown, creation time and initial price
\* as they are.
C27_SchedulerFrame ==
    [][SchedulerStep =>
         /\ DOMAIN stocks' = DOMAIN stocks
         /\ \A id \in DOMAIN stocks :
              /\ id # last'.id => stocks'[id] = stocks[id]
              /\ \A f \in FrameColumns \cap DOMAIN stocks[id] :
                    stocks'[id][f] = stocks[id][f]]_vars

\* a tick has just sent the sell alert of a row and written its time
C27_Witness ==
    /\ cfg.variant \in CdVariants
    /\ last.id \in DOMAIN stocks
    /\ Has(last.events, "SellAlert")
    /\ stocks[last.id].last_notified_target = tickTime[last.thread]
    /\ stocks[last.id].enabled = 1
    /\ stocks[last.id].target_price = 6000

----------------------------------------------------------------------------
(* The symmetric policy from the initial state *)

\* C28: while the alert marker of the loaded row is still 0, an evaluation
\* with a positive price under the alert price sends no Alert, and an
\* evaluation with a price at or over the (set) alert price sends it;
\* likewise for the target marker and the Target.
C28_FromInitialState ==
    [][\A t \in Threads, id \in StockIds :
         SymStep(t, id) =>
            /\ df[t][id].last_notified_alert = 0 =>
                 /\ (0 < last'.quote /\ last'.quote < df[t][id].alert_price)
                       => ~Has(last'.events, "Alert")
                 /\ (df[t][id].alert_price > 0 /\ last'.quote >= df[t][id].alert_price)
                       => Has(last'.events, "Alert")
            /\ df[t][id].last_notified_target = 0 =>
                 /\ (0 < last'.quote /\ last'.quote < df[t][id].target_price)
                       => ~Has(last'.events, "Target")
                 /\ (df[t][id].target_price > 0 /\ last'.quote >= df[t][id].target_price)
                       => Has(last'.events, "Target")]_vars

\* a fresh entry with alert price 100: no Alert at 85, none at 99, the first
\* Alert at 100
C28_Witness ==
    \E id \in DOMAIN stocks :
        /\ cfg.variant \in SymVariants
        /\ trail[id].on
        /\ stocks[id].alert_price = 100
        /\ TrailQuotes(trail[id]) = <<85, 99, 100>>
        /\ ~Has(trail[id].seq[1].events, "Alert")
        /\ ~Has(trail[id].seq[2].events, "Alert")
        /\ Has(trail[id].seq[3].events, "Alert")
        /\ stocks[id].last_notified_alert = 100

----------------------------------------------------------------------------
(* Edits and deletes while a tick is running *)

\* C29 as stated: whenever a walk step sends a notification for an entry,
\* the entry is stored and its stored alert and target price are the ones
\* the notification was computed from.
C29_EventsReflectStore ==
    [][\A t \in Threads, id \in StockIds :
         (EvalStep(t, id) /\ last'.events # <<>>) =>
            /\ id \in DOMAIN stocks
            /\ stocks[id].alert_price = df[t][id].alert_price
            /\ stocks[id].target_price = df[t][id].target_price]_vars

\* C30: the walk step of a row whose id the dashboard has deleted changes
\* nothing in the table; no step of a tick changes the set of stored ids; an
\* id that was handed out and is not stored is never stored again; and the
\* set of stored ids changes by one id at a time, the new one on an insert.
C30_DeletionIsPermanent ==
    [][/\ \A t \in Threads, id \in StockIds :
            (WalkStep(t, id) /\ id \notin DOMAIN stocks) => stocks' = stocks
       /\ (last'.id # 0 \/ pc' # pc) => DOMAIN stocks' = DOMAIN stocks
       /\ \A id \in StockIds :
            (id < nextId /\ id \notin DOMAIN stocks) => id \notin DOMAIN stocks'
       /\ \/ DOMAIN stocks' = DOMAIN stocks
          \/ DOMAIN stocks' = (DOMAIN stocks) \cup {nextId} /\ nextId' = nextId + 1
          \/ \E id \in DOMAIN stocks : DOMAIN stocks' = (DOMAIN stocks) \ {id}]_vars

\* the tick has sent the Alert of a row that was deleted after the load, and
\* the row is still gone
C30_Witness ==
    /\ last.id # 0
    /\ last.id \notin DOMAIN stocks
    /\ last.id < nextId
    /\ Has(last.events, "Alert")
    /\ last.id \in DOMAIN df[last.thread]

====
